---- MODULE Spec2Model ----
(***************************************************************************)
(* State-machine model of the subscription-manager contract                *)
(* (src/subscription-manager/src/contract.rs): the admin singleton, the    *)
(* subscriber keymap, the API-key keymap, the entry points instantiate,    *)
(* execute, migrate and query, and the permit validation they call.        *)
(***************************************************************************)
EXTENDS Integers, Sequences, FiniteSets, TLC

VARIABLES
    admin,            \* State.admin, the config singleton
    SB_MAP,           \* subscriber keymap: public_key -> Subscriber
    API_KEY_MAP,      \* API-key keymap: its keys, in the keymap's iteration order
    revoked_permits,  \* permit revocation ledger: <<storage_prefix, account, permit_name>>
    last              \* the call that ran last: its entry point, sender and
                      \* message, the storage it ran on (pre) and its result

vars == <<admin, SB_MAP, API_KEY_MAP, revoked_permits, last>>

----------------------------------------------------------------------------
(* Bounds of the inputs.                                                   *)

NumAddrs == 2
NumSubKeys == 2
NumSecrets == 2

AddrNames == <<"admin", "new_admin", "not_admin", "creator", "anyone">>
\* well-formed identities: the senders the host can authenticate, the signers
\* a permit can validate to
Addrs == {AddrNames[i] : i \in 1..NumAddrs}
\* a string the host's address validation rejects
MalformedAddr == "x"

SubKeyNames == <<"subscriber1", "subscriber_public_key", "unregistered_public_key", "bob">>
PublicKeys == {SubKeyNames[i] : i \in 1..NumSubKeys}

\* the sender field of a call that has none (migrate, query)
NoAddr == "(none)"

----------------------------------------------------------------------------
(* SHA-256 and hex encoding, as try_add_api_key computes the stored key.   *)

HexDigits == <<"0","1","2","3","4","5","6","7","8","9","a","b","c","d","e","f">>

\* hex::encode: two lowercase hex characters per byte, high nibble first
RECURSIVE hex_encode(_)
hex_encode(bytes) ==
    IF bytes = <<>> THEN <<>>
    ELSE <<HexDigits[(Head(bytes) \div 16) + 1], HexDigits[(Head(bytes) % 16) + 1]>>
             \o hex_encode(Tail(bytes))

\* The strings of the model: the api_key values callers pass and the hex strings
\* their digests encode to.  The second api_key is the 64-character hex string
\* that is also the digest of the first.
SecretNames ==
    <<"s",
      "043a718774c572bd8a25adbeb1bfcd5c0256ae11cecf9f9c3f925d0e52beaf89",
      "test_key1",
      "test_key2">>
Secrets == {SecretNames[i] : i \in 1..NumSecrets}

\* the characters of a string (a String is compared as a whole; its characters
\* are read through this table)
Chars(str) ==
    CASE str = "s" ->
           <<"s">>
      [] str = "043a718774c572bd8a25adbeb1bfcd5c0256ae11cecf9f9c3f925d0e52beaf89" ->
           <<"0","4","3","a","7","1","8","7","7","4","c","5","7","2","b","d",
             "8","a","2","5","a","d","b","e","b","1","b","f","c","d","5","c",
             "0","2","5","6","a","e","1","1","c","e","c","f","9","f","9","c",
             "3","f","9","2","5","d","0","e","5","2","b","e","a","f","8","9">>
      [] str = "test_key1" ->
           <<"t","e","s","t","_","k","e","y","1">>
      [] str = "test_key2" ->
           <<"t","e","s","t","_","k","e","y","2">>
      [] str = "49393f93b5fe69febf59ca052588a63bb4ac6d933462d390026ba1c9a7bb8e44" ->
           <<"4","9","3","9","3","f","9","3","b","5","f","e","6","9","f","e",
             "b","f","5","9","c","a","0","5","2","5","8","8","a","6","3","b",
             "b","4","a","c","6","d","9","3","3","4","6","2","d","3","9","0",
             "0","2","6","b","a","1","c","9","a","7","b","b","8","e","4","4">>
      [] str = "6498a94934204d89a2091b2c9f755ca9ad447f12eb92fce4431c032a2dd6ac26" ->
           <<"6","4","9","8","a","9","4","9","3","4","2","0","4","d","8","9",
             "a","2","0","9","1","b","2","c","9","f","7","5","5","c","a","9",
             "a","d","4","4","7","f","1","2","e","b","9","2","f","c","e","4",
             "4","3","1","c","0","3","2","a","2","d","d","6","a","c","2","6">>
      [] str = "3e3a53840625135bc5d423be0085c5ca76e1f28efc3883f8f8f02f922aae4469" ->
           <<"3","e","3","a","5","3","8","4","0","6","2","5","1","3","5","b",
             "c","5","d","4","2","3","b","e","0","0","8","5","c","5","c","a",
             "7","6","e","1","f","2","8","e","f","c","3","8","8","3","f","8",
             "f","8","f","0","2","f","9","2","2","a","a","e","4","4","6","9">>

\* api_key.as_bytes() through Sha256::new().update(..).finalize(): the 32-byte
\* digests of the strings passed as api_key
Sha256(chars) ==
    CASE chars = Chars("s") ->
           <<4,58,113,135,116,197,114,189,138,37,173,190,177,191,205,92,
             2,86,174,17,206,207,159,156,63,146,93,14,82,190,175,137>>
      [] chars = Chars("043a718774c572bd8a25adbeb1bfcd5c0256ae11cecf9f9c3f925d0e52beaf89") ->
           <<73,57,63,147,181,254,105,254,191,89,202,5,37,136,166,59,
             180,172,109,147,52,98,211,144,2,107,161,201,167,187,142,68>>
      [] chars = Chars("test_key1") ->
           <<100,152,169,73,52,32,77,137,162,9,27,44,159,117,92,169,
             173,68,127,18,235,146,252,228,67,28,3,42,45,214,172,38>>
      [] chars = Chars("test_key2") ->
           <<62,58,83,132,6,37,19,91,197,212,35,190,0,133,197,202,
             118,225,242,142,252,56,131,248,248,240,47,146,42,174,68,105>>

\* the String made of the given characters
StringOf(chars) ==
    CHOOSE str \in {"s",
                   "043a718774c572bd8a25adbeb1bfcd5c0256ae11cecf9f9c3f925d0e52beaf89",
                   "test_key1",
                   "test_key2",
                   "49393f93b5fe69febf59ca052588a63bb4ac6d933462d390026ba1c9a7bb8e44",
                   "6498a94934204d89a2091b2c9f755ca9ad447f12eb92fce4431c032a2dd6ac26",
                   "3e3a53840625135bc5d423be0085c5ca76e1f28efc3883f8f8f02f922aae4469"} : Chars(str) = chars

\* let key_hash = hex::encode(hasher.finalize()), for each api_key of the model
KeyHashTable ==
    [api_key \in {SecretNames[i] : i \in 1..Len(SecretNames)} |->
        StringOf(hex_encode(Sha256(Chars(api_key))))]

\* the api_key itself taken for its hash
key_hash_unhashed(api_key) == api_key

key_hash_of(api_key) == KeyHashTable[api_key]

----------------------------------------------------------------------------
(* The storage a call sees, and the keymap operations the handlers use.    *)

\* deps.storage: the config singleton, the two keymaps and the permit
\* revocation ledger
Storage == [admin |-> admin, SB_MAP |-> SB_MAP, API_KEY_MAP |-> API_KEY_MAP,
            revoked_permits |-> revoked_permits]

\* SB_MAP.contains(deps.storage, &public_key)
sb_contains(m, key) == key \in DOMAIN m

\* SB_MAP.insert(deps.storage, &public_key, &subscriber): sets the entry of key
sb_insert(m, key, value) ==
    [k \in (DOMAIN m) \cup {key} |-> IF k = key THEN value ELSE m[k]]

\* SB_MAP.remove(deps.storage, &public_key)
sb_remove(m, key) == [k \in (DOMAIN m) \ {key} |-> m[k]]

\* SB_MAP.get(deps.storage, &public_key).is_some()
sb_get_is_some(m, key) == key \in DOMAIN m

\* the set of the elements of a sequence
Range(s) == {s[i] : i \in 1..Len(s)}

\* API_KEY_MAP.contains(deps.storage, &key_hash)
api_contains(keys, key_hash) == key_hash \in Range(keys)

\* API_KEY_MAP.insert(deps.storage, &key_hash, &api_key_data): a new key is
\* appended to the keymap's index, a present key keeps its place
api_insert(keys, key_hash) ==
    IF key_hash \in Range(keys) THEN keys ELSE Append(keys, key_hash)

\* API_KEY_MAP.remove(deps.storage, &key): the last key of the index takes the
\* place of the removed one
api_remove(keys, key_hash) ==
    IF key_hash \notin Range(keys) THEN keys
    ELSE LET pos == CHOOSE i \in 1..Len(keys) : keys[i] = key_hash
             n == Len(keys)
         IN  [i \in 1..(n - 1) |-> IF i = pos THEN keys[n] ELSE keys[i]]

\* API_KEY_MAP.iter_keys(deps.storage)?.filter_map(|r| r.ok()).collect()
api_iter_keys(keys) == keys

----------------------------------------------------------------------------
(* Results of the entry points.                                            *)

NoData == [none |-> TRUE]

\* Ok(Response::new().add_attribute(..).add_attribute(..))
OkResponse(attrs) == [ok |-> TRUE, err |-> "", attributes |-> attrs, data |-> NoData]

\* Err(StdError::generic_err(msg))
ErrResult(msg) == [ok |-> FALSE, err |-> msg, attributes |-> <<>>, data |-> NoData]

\* to_binary(&value) of a query
OkBinary(value) == [ok |-> TRUE, err |-> "", attributes |-> <<>>, data |-> value]

\* what a handler hands back: its result and the storage it leaves.  A handler
\* that fails leaves the storage it was given.
Out(res, st) == [res |-> res, st |-> st]

----------------------------------------------------------------------------
(* Permits and secret_toolkit::permit::validate.                           *)

ContractAddress == "secret1ttm9axv8hqwjv3qxvxseecppsrw4cd68getrvr"
OtherContract == "secret1othercontract"

PermitNames == {"query_subscriber_permit", "api_keys_permit"}

\* a permit as the query receives it: params.permit_name, params.allowed_tokens,
\* the account its signature.pub_key encodes to, and whether signature.signature
\* verifies over the params under that key.  The permits presented are signed
\* for this contract (well or badly) or well signed for another contract.
Permits ==
    {p \in [permit_name : PermitNames,
            allowed_tokens : {{ContractAddress}, {OtherContract}},
            signer : Addrs,
            sig_ok : BOOLEAN] :
        p.allowed_tokens = {ContractAddress} \/ p.sig_ok}

\* validate(deps, storage_prefix, &permit, contract_address, Some("secret"))
validate(st, storage_prefix, permit, contract_address) ==
    IF contract_address \notin permit.allowed_tokens
    THEN [ok |-> FALSE, err |-> "Permit doesn't apply to token", account |-> ""]
    ELSE IF <<storage_prefix, permit.signer, permit.permit_name>> \in st.revoked_permits
    THEN [ok |-> FALSE, err |-> "Permit was revoked by account", account |-> ""]
    ELSE IF ~permit.sig_ok
    THEN [ok |-> FALSE, err |-> "Failed to verify signatures for the given permit",
          account |-> ""]
    ELSE [ok |-> TRUE, err |-> "", account |-> permit.signer]

\* deps.api.addr_validate(&public_key).is_ok()
addr_validate_ok(public_key) == public_key \in Addrs

----------------------------------------------------------------------------
(* The execute handlers.                                                   *)

\* try_add_api_key storing the api_key it was given in place of its hash
try_add_api_key_raw(st, sender, api_key) ==
    IF sender # st.admin
    THEN Out(ErrResult("Only admin can add API keys"), st)
    ELSE LET key_hash == api_key IN
         IF api_contains(st.API_KEY_MAP, key_hash)
         THEN Out(ErrResult("API key (hash) already exists"), st)
         ELSE Out(OkResponse(<< <<"action", "add_api_key">>,
                                <<"stored_hash", key_hash>> >>),
                  [st EXCEPT !.API_KEY_MAP = api_insert(@, key_hash)])

\* try_add_api_key without the API_KEY_MAP.contains check
try_add_api_key_unchecked(st, sender, api_key) ==
    IF sender # st.admin
    THEN Out(ErrResult("Only admin can add API keys"), st)
    ELSE LET key_hash == key_hash_of(api_key) IN
         Out(OkResponse(<< <<"action", "add_api_key">>,
                           <<"stored_hash", key_hash>> >>),
             [st EXCEPT !.API_KEY_MAP = api_insert(@, key_hash)])

try_add_api_key(st, sender, api_key) ==
    IF sender # st.admin
    THEN Out(ErrResult("Only admin can add API keys"), st)
    ELSE LET key_hash == key_hash_of(api_key) IN
         IF api_contains(st.API_KEY_MAP, key_hash)
         THEN Out(ErrResult("API key (hash) already exists"), st)
         ELSE Out(OkResponse(<< <<"action", "add_api_key">>,
                                <<"stored_hash", key_hash>> >>),
                  [st EXCEPT !.API_KEY_MAP = api_insert(@, key_hash)])

\* try_revoke_api_key removing the entry of the api_key, not of its hash
try_revoke_api_key_raw(st, sender, api_key) ==
    IF sender # st.admin
    THEN Out(ErrResult("Only admin can revoke API keys"), st)
    ELSE LET key_hash == key_hash_of(api_key) IN
         IF ~api_contains(st.API_KEY_MAP, key_hash)
         THEN Out(ErrResult("API key (hash) not found"), st)
         ELSE Out(OkResponse(<< <<"action", "revoke_api_key">>,
                                <<"removed_hash", key_hash>> >>),
                  [st EXCEPT !.API_KEY_MAP = api_remove(@, api_key)])

\* try_revoke_api_key reporting the api_key it was given as removed_hash
try_revoke_api_key_reports_secret(st, sender, api_key) ==
    IF sender # st.admin
    THEN Out(ErrResult("Only admin can revoke API keys"), st)
    ELSE LET key_hash == key_hash_of(api_key) IN
         IF ~api_contains(st.API_KEY_MAP, key_hash)
         THEN Out(ErrResult("API key (hash) not found"), st)
         ELSE Out(OkResponse(<< <<"action", "revoke_api_key">>,
                                <<"removed_hash", api_key>> >>),
                  [st EXCEPT !.API_KEY_MAP = api_remove(@, key_hash)])

try_revoke_api_key(st, sender, api_key) ==
    IF sender # st.admin
    THEN Out(ErrResult("Only admin can revoke API keys"), st)
    ELSE LET key_hash == key_hash_of(api_key) IN
         IF ~api_contains(st.API_KEY_MAP, key_hash)
         THEN Out(ErrResult("API key (hash) not found"), st)
         ELSE Out(OkResponse(<< <<"action", "revoke_api_key">>,
                                <<"removed_hash", key_hash>> >>),
                  [st EXCEPT !.API_KEY_MAP = api_remove(@, key_hash)])

\* try_register_subscriber without the SB_MAP.contains check
try_register_subscriber_overwrite(st, sender, public_key) ==
    IF sender # st.admin
    THEN Out(ErrResult("Only admin can register subscribers"), st)
    ELSE Out(OkResponse(<< <<"action", "register_subscriber">>,
                           <<"subscriber", public_key>> >>),
             [st EXCEPT !.SB_MAP = sb_insert(@, public_key, [status |-> TRUE])])

\* try_register_subscriber inserting the subscriber with status false
try_register_subscriber_inactive(st, sender, public_key) ==
    IF sender # st.admin
    THEN Out(ErrResult("Only admin can register subscribers"), st)
    ELSE IF sb_contains(st.SB_MAP, public_key)
    THEN Out(ErrResult("Subscriber already registered"), st)
    ELSE Out(OkResponse(<< <<"action", "register_subscriber">>,
                           <<"subscriber", public_key>> >>),
             [st EXCEPT !.SB_MAP = sb_insert(@, public_key, [status |-> FALSE])])

\* try_register_subscriber testing SB_MAP.contains before the sender
try_register_subscriber_exists_first(st, sender, public_key) ==
    IF sb_contains(st.SB_MAP, public_key)
    THEN Out(ErrResult("Subscriber already registered"), st)
    ELSE IF sender # st.admin
    THEN Out(ErrResult("Only admin can register subscribers"), st)
    ELSE Out(OkResponse(<< <<"action", "register_subscriber">>,
                           <<"subscriber", public_key>> >>),
             [st EXCEPT !.SB_MAP = sb_insert(@, public_key, [status |-> TRUE])])

try_register_subscriber(st, sender, public_key) ==
    IF sender # st.admin
    THEN Out(ErrResult("Only admin can register subscribers"), st)
    ELSE IF sb_contains(st.SB_MAP, public_key)
    THEN Out(ErrResult("Subscriber already registered"), st)
    ELSE Out(OkResponse(<< <<"action", "register_subscriber">>,
                           <<"subscriber", public_key>> >>),
             [st EXCEPT !.SB_MAP = sb_insert(@, public_key, [status |-> TRUE])])

\* try_remove_subscriber without the SB_MAP.contains check
try_remove_subscriber_unchecked(st, sender, public_key) ==
    IF sender # st.admin
    THEN Out(ErrResult("Only admin can remove subscribers"), st)
    ELSE Out(OkResponse(<< <<"action", "remove_subscriber">>,
                           <<"subscriber", public_key>> >>),
             [st EXCEPT !.SB_MAP = sb_remove(@, public_key)])

\* try_remove_subscriber removing every entry of the subscriber map
try_remove_subscriber_all(st, sender, public_key) ==
    IF sender # st.admin
    THEN Out(ErrResult("Only admin can remove subscribers"), st)
    ELSE IF ~sb_contains(st.SB_MAP, public_key)
    THEN Out(ErrResult("Subscriber not registered"), st)
    ELSE Out(OkResponse(<< <<"action", "remove_subscriber">>,
                           <<"subscriber", public_key>> >>),
             [st EXCEPT !.SB_MAP = <<>>])

\* try_remove_subscriber flagging the entry inactive in place of removing it
try_remove_subscriber_flag(st, sender, public_key) ==
    IF sender # st.admin
    THEN Out(ErrResult("Only admin can remove subscribers"), st)
    ELSE IF ~sb_contains(st.SB_MAP, public_key)
    THEN Out(ErrResult("Subscriber not registered"), st)
    ELSE Out(OkResponse(<< <<"action", "remove_subscriber">>,
                           <<"subscriber", public_key>> >>),
             [st EXCEPT !.SB_MAP = sb_insert(@, public_key, [status |-> FALSE])])

try_remove_subscriber(st, sender, public_key) ==
    IF sender # st.admin
    THEN Out(ErrResult("Only admin can remove subscribers"), st)
    ELSE IF ~sb_contains(st.SB_MAP, public_key)
    THEN Out(ErrResult("Subscriber not registered"), st)
    ELSE Out(OkResponse(<< <<"action", "remove_subscriber">>,
                           <<"subscriber", public_key>> >>),
             [st EXCEPT !.SB_MAP = sb_remove(@, public_key)])

\* try_set_admin that answers Ok without config.save(&state)
try_set_admin_no_save(st, sender, public_key) ==
    IF sender # st.admin
    THEN Out(ErrResult("Only the current admin can set a new admin"), st)
    ELSE IF ~addr_validate_ok(public_key)
    THEN Out(ErrResult("Invalid address"), st)
    ELSE Out(OkResponse(<< <<"action", "set_admin">>,
                           <<"new_admin", public_key>> >>),
             st)

\* try_set_admin without its admin check
try_set_admin_no_gate(st, sender, public_key) ==
    IF ~addr_validate_ok(public_key)
    THEN Out(ErrResult("Invalid address"), st)
    ELSE Out(OkResponse(<< <<"action", "set_admin">>,
                           <<"new_admin", public_key>> >>),
             [st EXCEPT !.admin = public_key])

\* try_set_admin validating the address before it checks the sender
try_set_admin_validate_first(st, sender, public_key) ==
    IF ~addr_validate_ok(public_key)
    THEN Out(ErrResult("Invalid address"), st)
    ELSE IF sender # st.admin
    THEN Out(ErrResult("Only the current admin can set a new admin"), st)
    ELSE Out(OkResponse(<< <<"action", "set_admin">>,
                           <<"new_admin", public_key>> >>),
             [st EXCEPT !.admin = public_key])

\* pub fn try_set_admin.  The error of a malformed address is "Invalid address: "
\* followed by the host's own text; the model keeps the contract's part of it.
try_set_admin(st, sender, public_key) ==
    IF sender # st.admin
    THEN Out(ErrResult("Only the current admin can set a new admin"), st)
    ELSE IF ~addr_validate_ok(public_key)
    THEN Out(ErrResult("Invalid address"), st)
    ELSE Out(OkResponse(<< <<"action", "set_admin">>,
                           <<"new_admin", public_key>> >>),
             [st EXCEPT !.admin = public_key])

\* pub fn execute: the dispatch on ExecuteMsg
execute(st, sender, msg) ==
    CASE msg.type = "register_subscriber" -> try_register_subscriber(st, sender, msg.public_key)
      [] msg.type = "remove_subscriber" -> try_remove_subscriber(st, sender, msg.public_key)
      [] msg.type = "set_admin" -> try_set_admin(st, sender, msg.public_key)
      [] msg.type = "add_api_key" -> try_add_api_key(st, sender, msg.api_key)
      [] msg.type = "revoke_api_key" -> try_revoke_api_key(st, sender, msg.api_key)

----------------------------------------------------------------------------
(* migrate.                                                                *)

\* for key in keys_to_remove { API_KEY_MAP.remove(deps.storage, &key)?; }
RECURSIVE remove_each(_, _)
remove_each(keys, keys_to_remove) ==
    IF keys_to_remove = <<>> THEN keys
    ELSE remove_each(api_remove(keys, Head(keys_to_remove)), Tail(keys_to_remove))

\* migrate removing the first of the collected keys only
migrate_first_key_only(st, msg) ==
    IF msg.type = "migrate"
    THEN LET keys_to_remove == api_iter_keys(st.API_KEY_MAP) IN
         Out(OkResponse(<< <<"action", "migrate">>,
                           <<"status", "api_key_map_cleared">> >>),
             [st EXCEPT !.API_KEY_MAP =
                 IF keys_to_remove = <<>> THEN @ ELSE api_remove(@, Head(keys_to_remove))])
    ELSE Out(ErrResult("this is an std error"), st)

\* migrate answering Ok to MigrateMsg::StdError
migrate_std_error_ok(st, msg) ==
    IF msg.type = "migrate"
    THEN LET keys_to_remove == api_iter_keys(st.API_KEY_MAP) IN
         Out(OkResponse(<< <<"action", "migrate">>,
                           <<"status", "api_key_map_cleared">> >>),
             [st EXCEPT !.API_KEY_MAP = remove_each(@, keys_to_remove)])
    ELSE Out(OkResponse(<<>>), st)

migrate(st, msg) ==
    IF msg.type = "migrate"
    THEN LET keys_to_remove == api_iter_keys(st.API_KEY_MAP) IN
         Out(OkResponse(<< <<"action", "migrate">>,
                           <<"status", "api_key_map_cleared">> >>),
             [st EXCEPT !.API_KEY_MAP = remove_each(@, keys_to_remove)])
    ELSE Out(ErrResult("this is an std error"), st)

----------------------------------------------------------------------------
(* The queries.  They take the storage read-only and return a result.      *)

\* get_admin answering the first of the identities, whatever the store holds
get_admin_fixed(st) == OkBinary(AddrNames[1])

get_admin(st) == OkBinary(st.admin)

\* query_subscriber_with_permit testing is_none() for is_some()
query_subscriber_is_none(st, contract_address, public_key, permit) ==
    LET admin_addr == st.admin IN
    IF permit.permit_name # "query_subscriber_permit"
    THEN ErrResult("Invalid permit name")
    ELSE LET v == validate(st, "permits_subscriber_status", permit, contract_address) IN
         IF ~v.ok THEN ErrResult(v.err)
         ELSE IF v.account # admin_addr
         THEN ErrResult("Unauthorized: not the admin")
         ELSE OkBinary([active |-> ~sb_get_is_some(st.SB_MAP, public_key)])

\* query_subscriber_with_permit validating the permit before it looks at its name
query_subscriber_validate_first(st, contract_address, public_key, permit) ==
    LET admin_addr == st.admin
        v == validate(st, "permits_subscriber_status", permit, contract_address)
    IN  IF ~v.ok THEN ErrResult(v.err)
        ELSE IF permit.permit_name # "query_subscriber_permit"
        THEN ErrResult("Invalid permit name")
        ELSE IF v.account # admin_addr
        THEN ErrResult("Unauthorized: not the admin")
        ELSE OkBinary([active |-> sb_get_is_some(st.SB_MAP, public_key)])

\* query_subscriber_with_permit comparing the signer with an admin it keeps from
\* an earlier call, the first of the identities, not with the one in the storage
query_subscriber_stale_admin(st, contract_address, public_key, permit) ==
    LET admin_addr == AddrNames[1] IN
    IF permit.permit_name # "query_subscriber_permit"
    THEN ErrResult("Invalid permit name")
    ELSE LET v == validate(st, "permits_subscriber_status", permit, contract_address) IN
         IF ~v.ok THEN ErrResult(v.err)
         ELSE IF v.account # admin_addr
         THEN ErrResult("Unauthorized: not the admin")
         ELSE OkBinary([active |-> sb_get_is_some(st.SB_MAP, public_key)])

query_subscriber_with_permit(st, contract_address, public_key, permit) ==
    LET admin_addr == st.admin IN
    IF permit.permit_name # "query_subscriber_permit"
    THEN ErrResult("Invalid permit name")
    ELSE LET v == validate(st, "permits_subscriber_status", permit, contract_address) IN
         IF ~v.ok THEN ErrResult(v.err)
         ELSE IF v.account # admin_addr
         THEN ErrResult("Unauthorized: not the admin")
         ELSE OkBinary([active |-> sb_get_is_some(st.SB_MAP, public_key)])

\* query_api_keys_with_permit without the comparison of the signer with the admin
query_api_keys_any_signer(st, contract_address, permit) ==
    IF permit.permit_name # "api_keys_permit"
    THEN ErrResult("Invalid permit name")
    ELSE LET v == validate(st, "permits_api_keys", permit, contract_address) IN
         IF ~v.ok THEN ErrResult(v.err)
         ELSE LET keys == api_iter_keys(st.API_KEY_MAP) IN
              OkBinary([api_keys |-> [i \in 1..Len(keys) |-> [hashed_key |-> keys[i]]]])

\* query_api_keys_with_permit leaving the last key of the iteration out
query_api_keys_short(st, contract_address, permit) ==
    LET admin_addr == st.admin IN
    IF permit.permit_name # "api_keys_permit"
    THEN ErrResult("Invalid permit name")
    ELSE LET v == validate(st, "permits_api_keys", permit, contract_address) IN
         IF ~v.ok THEN ErrResult(v.err)
         ELSE IF v.account # admin_addr
         THEN ErrResult("Unauthorized: not the admin")
         ELSE LET keys == api_iter_keys(st.API_KEY_MAP) IN
              OkBinary([api_keys |-> [i \in 1..(Len(keys) - 1) |-> [hashed_key |-> keys[i]]]])

query_api_keys_with_permit(st, contract_address, permit) ==
    LET admin_addr == st.admin IN
    IF permit.permit_name # "api_keys_permit"
    THEN ErrResult("Invalid permit name")
    ELSE LET v == validate(st, "permits_api_keys", permit, contract_address) IN
         IF ~v.ok THEN ErrResult(v.err)
         ELSE IF v.account # admin_addr
         THEN ErrResult("Unauthorized: not the admin")
         ELSE LET keys == api_iter_keys(st.API_KEY_MAP) IN
              OkBinary([api_keys |-> [i \in 1..Len(keys) |-> [hashed_key |-> keys[i]]]])

\* pub fn query: the dispatch on QueryMsg
query(st, contract_address, msg) ==
    CASE msg.type = "subscriber_status_with_permit" ->
             query_subscriber_with_permit(st, contract_address, msg.public_key, msg.permit)
      [] msg.type = "get_admin" -> get_admin(st)
      [] msg.type = "api_keys_with_permit" ->
             query_api_keys_with_permit(st, contract_address, msg.permit)

----------------------------------------------------------------------------
(* The state machine: instantiate, then any sequence of calls.             *)

\* pub fn instantiate: the sender becomes the admin; the keymaps and the
\* revocation ledger of a new contract are empty
\* instantiate storing a fixed admin in place of info.sender
instantiate_fixed_admin(sender) ==
    Out(OkResponse(<<>>),
        [admin |-> AddrNames[1], SB_MAP |-> <<>>, API_KEY_MAP |-> <<>>,
         revoked_permits |-> {}])

instantiate(sender) ==
    Out(OkResponse(<<>>),
        [admin |-> sender, SB_MAP |-> <<>>, API_KEY_MAP |-> <<>>,
         revoked_permits |-> {}])

Init ==
    \E sender \in Addrs :
        LET out == instantiate(sender) IN
        /\ admin = out.st.admin
        /\ SB_MAP = out.st.SB_MAP
        /\ API_KEY_MAP = out.st.API_KEY_MAP
        /\ revoked_permits = out.st.revoked_permits
        /\ last = [entry |-> "instantiate", sender |-> sender,
                   msg |-> [type |-> "instantiate"], pre |-> out.st,
                   res |-> out.res]

\* the host commits the storage a call returns; it discards the writes of a
\* call that returns Err
Commit(out) ==
    /\ admin' = IF out.res.ok THEN out.st.admin ELSE admin
    /\ SB_MAP' = IF out.res.ok THEN out.st.SB_MAP ELSE SB_MAP
    /\ API_KEY_MAP' = IF out.res.ok THEN out.st.API_KEY_MAP ELSE API_KEY_MAP
    /\ revoked_permits' = IF out.res.ok THEN out.st.revoked_permits ELSE revoked_permits

RegisterSubscriber ==
    \E sender \in Addrs, public_key \in PublicKeys :
        LET msg == [type |-> "register_subscriber", public_key |-> public_key]
            out == execute(Storage, sender, msg)
        IN  /\ Commit(out)
            /\ last' = [entry |-> "execute", sender |-> sender, msg |-> msg,
                        pre |-> Storage, res |-> out.res]

RemoveSubscriber ==
    \E sender \in Addrs, public_key \in PublicKeys :
        LET msg == [type |-> "remove_subscriber", public_key |-> public_key]
            out == execute(Storage, sender, msg)
        IN  /\ Commit(out)
            /\ last' = [entry |-> "execute", sender |-> sender, msg |-> msg,
                        pre |-> Storage, res |-> out.res]

SetAdmin ==
    \E sender \in Addrs, public_key \in Addrs \cup {MalformedAddr} :
        LET msg == [type |-> "set_admin", public_key |-> public_key]
            out == execute(Storage, sender, msg)
        IN  /\ Commit(out)
            /\ last' = [entry |-> "execute", sender |-> sender, msg |-> msg,
                        pre |-> Storage, res |-> out.res]

AddApiKey ==
    \E sender \in Addrs, api_key \in Secrets :
        LET msg == [type |-> "add_api_key", api_key |-> api_key]
            out == execute(Storage, sender, msg)
        IN  /\ Commit(out)
            /\ last' = [entry |-> "execute", sender |-> sender, msg |-> msg,
                        pre |-> Storage, res |-> out.res]

RevokeApiKey ==
    \E sender \in Addrs, api_key \in Secrets :
        LET msg == [type |-> "revoke_api_key", api_key |-> api_key]
            out == execute(Storage, sender, msg)
        IN  /\ Commit(out)
            /\ last' = [entry |-> "execute", sender |-> sender, msg |-> msg,
                        pre |-> Storage, res |-> out.res]

Migrate ==
    \E type \in {"migrate", "std_error"} :
        LET msg == [type |-> type]
            out == migrate(Storage, msg)
        IN  /\ Commit(out)
            /\ last' = [entry |-> "migrate", sender |-> NoAddr, msg |-> msg,
                        pre |-> Storage, res |-> out.res]

\* SubscriberStatusWithPermit writing the permit it was shown to the ledger
SubscriberStatusWithPermit_recording ==
    \E public_key \in PublicKeys, permit \in Permits :
        LET msg == [type |-> "subscriber_status_with_permit",
                    public_key |-> public_key, permit |-> permit] IN
        /\ last' = [entry |-> "query", sender |-> NoAddr, msg |-> msg,
                    pre |-> Storage, res |-> query(Storage, ContractAddress, msg)]
        /\ revoked_permits' = revoked_permits \cup
               {<<"permits_subscriber_status", permit.signer, permit.permit_name>>}
        /\ UNCHANGED <<admin, SB_MAP, API_KEY_MAP>>

\* a query runs on Deps, a read-only view of the storage: nothing is written
SubscriberStatusWithPermit ==
    \E public_key \in PublicKeys, permit \in Permits :
        LET msg == [type |-> "subscriber_status_with_permit",
                    public_key |-> public_key, permit |-> permit] IN
        /\ last' = [entry |-> "query", sender |-> NoAddr, msg |-> msg,
                    pre |-> Storage, res |-> query(Storage, ContractAddress, msg)]
        /\ UNCHANGED <<admin, SB_MAP, API_KEY_MAP, revoked_permits>>

ApiKeysWithPermit ==
    \E permit \in Permits :
        LET msg == [type |-> "api_keys_with_permit", permit |-> permit] IN
        /\ last' = [entry |-> "query", sender |-> NoAddr, msg |-> msg,
                    pre |-> Storage, res |-> query(Storage, ContractAddress, msg)]
        /\ UNCHANGED <<admin, SB_MAP, API_KEY_MAP, revoked_permits>>

GetAdmin ==
    LET msg == [type |-> "get_admin"] IN
    /\ last' = [entry |-> "query", sender |-> NoAddr, msg |-> msg,
                pre |-> Storage, res |-> query(Storage, ContractAddress, msg)]
    /\ UNCHANGED <<admin, SB_MAP, API_KEY_MAP, revoked_permits>>

Next ==
    \/ RegisterSubscriber
    \/ RemoveSubscriber
    \/ SetAdmin
    \/ AddApiKey
    \/ RevokeApiKey
    \/ Migrate
    \/ SubscriberStatusWithPermit
    \/ ApiKeysWithPermit
    \/ GetAdmin

Spec == Init /\ [][Next]_vars

----------------------------------------------------------------------------
(* Vocabulary of the properties.                                           *)

\* the message with which each execute handler turns away a sender that is not
\* the admin
AdminGateError(type) ==
    CASE type = "register_subscriber" -> "Only admin can register subscribers"
      [] type = "remove_subscriber" -> "Only admin can remove subscribers"
      [] type = "set_admin" -> "Only the current admin can set a new admin"
      [] type = "add_api_key" -> "Only admin can add API keys"
      [] type = "revoke_api_key" -> "Only admin can revoke API keys"

\* the last call was the execute message of the given type
Executed(type) == last.entry = "execute" /\ last.msg.type = type

\* the last call was the query of the given type
Queried(type) == last.entry = "query" /\ last.msg.type = type

\* the last call was one of the two permit queries
PermitQueried ==
    last.entry = "query"
        /\ last.msg.type \in {"subscriber_status_with_permit", "api_keys_with_permit"}

\* the permit name and the revocation namespace of each permit query
ExpectedPermitName(type) ==
    IF type = "subscriber_status_with_permit" THEN "query_subscriber_permit"
    ELSE "api_keys_permit"

PermitNamespace(type) ==
    IF type = "subscriber_status_with_permit" THEN "permits_subscriber_status"
    ELSE "permits_api_keys"

\* the permit passes the external validation in the namespace of the query
PermitValidates(type, permit) ==
    /\ ContractAddress \in permit.allowed_tokens
    /\ <<PermitNamespace(type), permit.signer, permit.permit_name>> \notin revoked_permits
    /\ permit.sig_ok

\* the error with which the external validation turns the permit away
PermitValidationError(type, permit) ==
    IF ContractAddress \notin permit.allowed_tokens THEN "Permit doesn't apply to token"
    ELSE IF <<PermitNamespace(type), permit.signer, permit.permit_name>> \in revoked_permits
    THEN "Permit was revoked by account"
    ELSE "Failed to verify signatures for the given permit"

\* the admin, the subscriber map and the API-key map are as the last call found them
RegistryUntouched ==
    /\ admin = last.pre.admin
    /\ SB_MAP = last.pre.SB_MAP
    /\ API_KEY_MAP = last.pre.API_KEY_MAP

----------------------------------------------------------------------------
(* C1: a mutating operation (RegisterSubscriber, RemoveSubscriber,         *)
(* SetAdmin, AddApiKey, RevokeApiKey) sent by an identity that is not the  *)
(* admin fails with the operation's Unauthorized error and leaves the      *)
(* admin, the subscriber map and the API-key map as they were, whatever    *)
(* the arguments and the contents of the store.                            *)
C1_NonAdminRejected ==
    (last.entry = "execute" /\ last.sender # last.pre.admin) =>
        /\ ~last.res.ok
        /\ last.res.err = AdminGateError(last.msg.type)
        /\ RegistryUntouched

\* a non-admin was turned away on a store that holds subscribers and API keys
C1_Witness ==
    /\ last.entry = "execute"
    /\ last.sender # last.pre.admin
    /\ last.res.err = AdminGateError(last.msg.type)
    /\ DOMAIN SB_MAP # {}
    /\ API_KEY_MAP # <<>>

----------------------------------------------------------------------------
(* C2 as stated: after a successful SetAdmin{new} by the admin, the next   *)
(* admin-gated call from the old admin identity is turned away and the     *)
(* next one from new passes the admin check.                               *)
C2_Original ==
    [][ (Executed("set_admin") /\ last.res.ok /\ last'.entry = "execute") =>
            /\ (last'.sender = last.sender =>
                    last'.res.err = AdminGateError(last'.msg.type))
            /\ (last'.sender = last.msg.public_key =>
                    last'.res.err # AdminGateError(last'.msg.type)) ]_vars

(* C2, amended: SetAdmin{new} sent by the current admin with a well-formed *)
(* new succeeds and stores new as the admin; the admin then stays new      *)
(* until a further successful SetAdmin; every admin-gated call is judged   *)
(* against the admin stored when it runs, so that right after the rotation *)
(* a call from the old admin identity, when it differs from new, fails     *)
(* with the Unauthorized error and a call from new passes the admin check. *)
C2_AdminRotation ==
    [][ /\ (last'.entry = "execute" /\ last'.msg.type = "set_admin"
                /\ last'.sender = admin /\ last'.msg.public_key \in Addrs) =>
               (last'.res.ok /\ admin' = last'.msg.public_key)
        /\ (admin' # admin) =>
               (last'.entry = "execute" /\ last'.msg.type = "set_admin" /\ last'.res.ok)
        /\ (last'.entry = "execute") =>
               ((last'.res.err = AdminGateError(last'.msg.type)) <=> (last'.sender # admin))
        /\ (Executed("set_admin") /\ last.res.ok /\ last'.entry = "execute") =>
               /\ admin = last.msg.public_key
               /\ (last'.sender = last.sender /\ last.sender # last.msg.public_key) =>
                      (last'.res.err = AdminGateError(last'.msg.type) /\ admin' = admin)
               /\ (last'.sender = last.msg.public_key) =>
                      last'.res.err # AdminGateError(last'.msg.type) ]_vars

\* the admin has just handed the contract over to another identity
C2_Witness ==
    /\ Executed("set_admin")
    /\ last.res.ok
    /\ last.sender = last.pre.admin
    /\ last.msg.public_key # last.sender
    /\ admin = last.msg.public_key

----------------------------------------------------------------------------
\* the permit carries the name of the query, passes the external validation and
\* is signed by the stored admin
AdminSignedPermit(type, permit) ==
    /\ permit.permit_name = ExpectedPermitName(type)
    /\ PermitValidates(type, permit)
    /\ permit.signer = admin

(* C3: register-then-query.  The subscriber map starts empty; a key enters *)
(* it only by a successful RegisterSubscriber of that key and leaves it    *)
(* only by a successful RemoveSubscriber of that key; a                    *)
(* SubscriberStatusWithPermit query with an admin-signed permit succeeds   *)
(* and answers exactly the presence of the key: true right after a         *)
(* successful RegisterSubscriber{k}, false right after a successful        *)
(* RemoveSubscriber{k}, false for a key never registered.                  *)
C3_RegisterThenQuery ==
    /\ (last.entry = "instantiate" => DOMAIN SB_MAP = {})
    /\ [][ /\ (last'.entry = "execute" /\ last'.msg.type = "register_subscriber"
                   /\ last'.res.ok) =>
                  last'.msg.public_key \in DOMAIN SB_MAP'
           /\ (last'.entry = "execute" /\ last'.msg.type = "remove_subscriber"
                   /\ last'.res.ok) =>
                  last'.msg.public_key \notin DOMAIN SB_MAP'
           /\ \A k \in PublicKeys :
                  ((k \in DOMAIN SB_MAP') # (k \in DOMAIN SB_MAP)) =>
                      /\ last'.entry = "execute"
                      /\ last'.res.ok
                      /\ last'.msg.public_key = k
                      /\ last'.msg.type =
                             IF k \in DOMAIN SB_MAP THEN "remove_subscriber"
                             ELSE "register_subscriber"
           /\ (last'.entry = "query"
                   /\ last'.msg.type = "subscriber_status_with_permit"
                   /\ AdminSignedPermit(last'.msg.type, last'.msg.permit)) =>
                  /\ last'.res.ok
                  /\ last'.res.data.active = (last'.msg.public_key \in DOMAIN SB_MAP)
                  /\ (Executed("register_subscriber") /\ last.res.ok
                          /\ last.msg.public_key = last'.msg.public_key) =>
                         last'.res.data.active = TRUE
                  /\ (Executed("remove_subscriber") /\ last.res.ok
                          /\ last.msg.public_key = last'.msg.public_key) =>
                         last'.res.data.active = FALSE ]_vars

\* an admin-signed query found a registered subscriber active while another
\* key was not registered
C3_Witness ==
    /\ Queried("subscriber_status_with_permit")
    /\ AdminSignedPermit(last.msg.type, last.msg.permit)
    /\ last.res.ok
    /\ last.res.data.active
    /\ \E k \in PublicKeys : k \notin DOMAIN SB_MAP

----------------------------------------------------------------------------
(* C4: a permit query returns registry data only when the permit carries   *)
(* the query's name, passes validation and its signer is the admin stored  *)
(* at the time of the query; a rightly named permit that validates to      *)
(* another signer is rejected with "Unauthorized: not the admin", and a    *)
(* rightly named permit that fails validation is rejected with the         *)
(* validation error.                                                       *)
C4_PermitSignerIsAdmin ==
    PermitQueried =>
        LET type == last.msg.type
            permit == last.msg.permit
            named == permit.permit_name = ExpectedPermitName(type)
        IN  /\ last.res.ok => (named /\ PermitValidates(type, permit)
                                   /\ permit.signer = last.pre.admin)
            /\ ~last.res.ok => last.res.data = NoData
            /\ (named /\ PermitValidates(type, permit) /\ permit.signer # last.pre.admin) =>
                   (~last.res.ok /\ last.res.err = "Unauthorized: not the admin")
            /\ (named /\ ~PermitValidates(type, permit)) =>
                   (~last.res.ok /\ last.res.err = PermitValidationError(type, permit))

\* a valid, rightly named permit of a signer who is not the admin was turned
\* away from a non-empty API-key map
C4_Witness ==
    /\ Queried("api_keys_with_permit")
    /\ last.msg.permit.permit_name = "api_keys_permit"
    /\ PermitValidates(last.msg.type, last.msg.permit)
    /\ last.msg.permit.signer # admin
    /\ last.res.err = "Unauthorized: not the admin"
    /\ API_KEY_MAP # <<>>

----------------------------------------------------------------------------
(* C5: permit purpose isolation.  A permit named "api_keys_permit" fails   *)
(* SubscriberStatusWithPermit, and one named "query_subscriber_permit"     *)
(* fails ApiKeysWithPermit, with "Invalid permit name", whether or not it  *)
(* is validly signed by the admin; the name is checked before validation,  *)
(* so a wrongly named permit that would also fail validation still gets    *)
(* the name error, never a validation error.                               *)
C5_PermitPurposeIsolation ==
    (PermitQueried /\ last.msg.permit.permit_name # ExpectedPermitName(last.msg.type)) =>
        (~last.res.ok /\ last.res.err = "Invalid permit name")

\* an admin-signed, valid permit named for the API-key query was turned away by
\* the subscriber query
C5_Witness ==
    /\ Queried("subscriber_status_with_permit")
    /\ last.msg.permit.permit_name = "api_keys_permit"
    /\ PermitValidates(last.msg.type, last.msg.permit)
    /\ last.msg.permit.signer = admin
    /\ last.res.err = "Invalid permit name"

----------------------------------------------------------------------------
(* C6: no query (SubscriberStatusWithPermit, ApiKeysWithPermit, GetAdmin), *)
(* succeeding or failing, changes the admin, the subscriber map, the       *)
(* API-key map or the permit-revocation ledger; so the same query          *)
(* presented again right after itself gets the same answer.                *)
C6_QueriesReadOnly ==
    [][ (last'.entry = "query") =>
            /\ admin' = admin
            /\ SB_MAP' = SB_MAP
            /\ API_KEY_MAP' = API_KEY_MAP
            /\ revoked_permits' = revoked_permits
            /\ last'.pre = Storage
            /\ (last.entry = "query" /\ last.msg.type = last'.msg.type
                    /\ last.msg = last'.msg) =>
                   last'.res = last.res ]_vars

\* a permit query has failed on a store that holds subscribers and API keys
C6_Witness ==
    /\ PermitQueried
    /\ ~last.res.ok
    /\ DOMAIN SB_MAP # {}
    /\ API_KEY_MAP # <<>>
    /\ Storage = last.pre

----------------------------------------------------------------------------
(* C7: RegisterSubscriber{k} by the admin for a k that is already          *)
(* registered fails with "Subscriber already registered" and alters        *)
(* neither the entry of k nor any other part of the store.                 *)
C7_DuplicateRegisterRejected ==
    (Executed("register_subscriber") /\ last.sender = last.pre.admin
         /\ last.msg.public_key \in DOMAIN last.pre.SB_MAP) =>
        /\ ~last.res.ok
        /\ last.res.err = "Subscriber already registered"
        /\ SB_MAP[last.msg.public_key] = last.pre.SB_MAP[last.msg.public_key]
        /\ Storage = last.pre

\* the admin registered a registered key and was turned away
C7_Witness ==
    /\ Executed("register_subscriber")
    /\ last.sender = admin
    /\ last.msg.public_key \in DOMAIN last.pre.SB_MAP
    /\ last.res.err = "Subscriber already registered"

----------------------------------------------------------------------------
(* C8: RemoveSubscriber{k} by the admin fails with                         *)
(* "Subscriber not registered" and leaves the store unchanged when k is    *)
(* not in the subscriber map; when k is present it succeeds and deletes    *)
(* exactly the entry of k.                                                 *)
C8_RemoveSubscriber ==
    (Executed("remove_subscriber") /\ last.sender = last.pre.admin) =>
        LET k == last.msg.public_key IN
        IF k \notin DOMAIN last.pre.SB_MAP
        THEN /\ ~last.res.ok
             /\ last.res.err = "Subscriber not registered"
             /\ Storage = last.pre
        ELSE /\ last.res.ok
             /\ DOMAIN SB_MAP = (DOMAIN last.pre.SB_MAP) \ {k}
             /\ \A j \in DOMAIN SB_MAP : SB_MAP[j] = last.pre.SB_MAP[j]
             /\ admin = last.pre.admin
             /\ API_KEY_MAP = last.pre.API_KEY_MAP
             /\ revoked_permits = last.pre.revoked_permits

\* the admin removed one of two registered subscribers
C8_Witness ==
    /\ Executed("remove_subscriber")
    /\ last.res.ok
    /\ last.msg.public_key \in DOMAIN last.pre.SB_MAP
    /\ last.msg.public_key \notin DOMAIN SB_MAP
    /\ DOMAIN SB_MAP # {}

----------------------------------------------------------------------------
\* the string is 64 characters long, each a lowercase hexadecimal digit
IsSha256Hex(str) ==
    /\ Len(Chars(str)) = 64
    /\ \A i \in 1..Len(Chars(str)) : Chars(str)[i] \in Range(HexDigits)

\* the keys a successful ApiKeysWithPermit listed
ListedKeys == {last.res.data.api_keys[i].hashed_key : i \in 1..Len(last.res.data.api_keys)}

(* C9 as stated: after a successful AddApiKey{s} by the admin the          *)
(* enumerated key list contains the SHA-256 hex digest of s and never the  *)
(* literal string s.                                                       *)
C9_Original ==
    (Executed("add_api_key") /\ last.res.ok) =>
        /\ key_hash_of(last.msg.api_key) \in Range(api_iter_keys(API_KEY_MAP))
        /\ last.msg.api_key \notin Range(api_iter_keys(API_KEY_MAP))

(* C9, amended: after a successful AddApiKey{s} by the admin the           *)
(* enumerated key list contains the SHA-256 hex digest of s, which differs *)
(* from s; every stored key, every stored_hash / removed_hash attribute    *)
(* and every hashed_key of a response is the 64-character lowercase hex    *)
(* digest of a secret passed to the contract, so the literal s is in the   *)
(* list only when s is itself the hex digest of another secret that was    *)
(* added.                                                                  *)
C9_DigestsOnly ==
    /\ \A k \in Range(API_KEY_MAP) :
           /\ IsSha256Hex(k)
           /\ \E s \in Secrets : k = key_hash_of(s) /\ k # s
    /\ (Executed("add_api_key") /\ last.res.ok) =>
           LET s == last.msg.api_key IN
           /\ IsSha256Hex(key_hash_of(s))
           /\ key_hash_of(s) # s
           /\ key_hash_of(s) \in Range(api_iter_keys(API_KEY_MAP))
           /\ last.res.attributes =
                  << <<"action", "add_api_key">>, <<"stored_hash", key_hash_of(s)>> >>
           /\ s \in Range(api_iter_keys(API_KEY_MAP)) =>
                  \E other \in Secrets \ {s} :
                      key_hash_of(other) = s /\ s \in Range(last.pre.API_KEY_MAP)
    /\ (Executed("revoke_api_key") /\ last.res.ok) =>
           LET s == last.msg.api_key IN
           /\ key_hash_of(s) # s
           /\ last.res.attributes =
                  << <<"action", "revoke_api_key">>, <<"removed_hash", key_hash_of(s)>> >>
    /\ (Queried("api_keys_with_permit") /\ last.res.ok) =>
           \A k \in ListedKeys : IsSha256Hex(k) /\ k \in Range(API_KEY_MAP)

\* ApiKeysWithPermit has listed the digest of "s" and not the string "s"
C9_Witness ==
    /\ Queried("api_keys_with_permit")
    /\ last.res.ok
    /\ key_hash_of("s") \in ListedKeys
    /\ "s" \notin ListedKeys

----------------------------------------------------------------------------
(* C10: RevokeApiKey{s} by the admin, when the digest of s is stored,      *)
(* succeeds and removes exactly that digest: every other digest stays,     *)
(* once each, the subscriber map and the admin are unchanged, and an       *)
(* ApiKeysWithPermit that succeeds lists exactly the stored digests, so    *)
(* the one that follows the revocation no longer lists the digest of s.    *)
C10_RevokeRemovesExactlyOne ==
    /\ (Executed("revoke_api_key") /\ last.sender = last.pre.admin
            /\ key_hash_of(last.msg.api_key) \in Range(last.pre.API_KEY_MAP)) =>
           LET d == key_hash_of(last.msg.api_key) IN
           /\ last.res.ok
           /\ Range(API_KEY_MAP) = Range(last.pre.API_KEY_MAP) \ {d}
           /\ Len(API_KEY_MAP) = Len(last.pre.API_KEY_MAP) - 1
           /\ SB_MAP = last.pre.SB_MAP
           /\ admin = last.pre.admin
    /\ Len(API_KEY_MAP) = Cardinality(Range(API_KEY_MAP))
    /\ (Queried("api_keys_with_permit") /\ last.res.ok) =>
           /\ ListedKeys = Range(API_KEY_MAP)
           /\ Len(last.res.data.api_keys) = Len(API_KEY_MAP)

\* the admin revoked one of two stored keys, with a subscriber registered
C10_Witness ==
    /\ Executed("revoke_api_key")
    /\ last.res.ok
    /\ key_hash_of(last.msg.api_key) \in Range(last.pre.API_KEY_MAP)
    /\ key_hash_of(last.msg.api_key) \notin Range(API_KEY_MAP)
    /\ API_KEY_MAP # <<>>
    /\ DOMAIN SB_MAP # {}

----------------------------------------------------------------------------
(* C11: the API-key operations test existence on the digest.  AddApiKey{s} *)
(* by the admin fails with "API key (hash) already exists" exactly when    *)
(* the digest of s is stored (whether or not the string s itself is a      *)
(* stored key), RevokeApiKey{s} by the admin fails with                    *)
(* "API key (hash) not found" exactly when the digest of s is not stored,  *)
(* and a failure of either leaves the store as it was.                     *)
C11_ExistenceCheckedOnDigest ==
    /\ (Executed("add_api_key") /\ last.sender = last.pre.admin) =>
           LET stored == key_hash_of(last.msg.api_key) \in Range(last.pre.API_KEY_MAP) IN
           /\ stored => (~last.res.ok /\ last.res.err = "API key (hash) already exists")
           /\ ~stored => last.res.ok
           /\ ~last.res.ok => Storage = last.pre
    /\ (Executed("revoke_api_key") /\ last.sender = last.pre.admin) =>
           LET stored == key_hash_of(last.msg.api_key) \in Range(last.pre.API_KEY_MAP) IN
           /\ ~stored => (~last.res.ok /\ last.res.err = "API key (hash) not found")
           /\ stored => last.res.ok
           /\ ~last.res.ok => Storage = last.pre

\* the admin added a secret a second time and was turned away, while the
\* revocation of a secret never added had no digest to find
C11_Witness ==
    /\ Executed("add_api_key")
    /\ last.sender = admin
    /\ key_hash_of(last.msg.api_key) \in Range(last.pre.API_KEY_MAP)
    /\ last.res.err = "API key (hash) already exists"
    /\ \E s \in Secrets : key_hash_of(s) \notin Range(API_KEY_MAP)

----------------------------------------------------------------------------
\* the last call was migrate with the given variant of MigrateMsg
Migrated(type) == last.entry = "migrate" /\ last.msg.type = type

(* C12: migrate with MigrateMsg::Migrate succeeds whatever keys were       *)
(* added before it and leaves the API-key map empty, so that its           *)
(* enumeration is the empty sequence and an ApiKeysWithPermit in that      *)
(* state lists nothing, while the subscriber map and the admin are as      *)
(* before.                                                                 *)
C12_MigrateClearsApiKeys ==
    Migrated("migrate") =>
        /\ last.res.ok
        /\ api_iter_keys(API_KEY_MAP) = <<>>
        /\ \A permit \in Permits :
               LET res == query(Storage, ContractAddress,
                                [type |-> "api_keys_with_permit", permit |-> permit])
               IN  res.ok => res.data.api_keys = <<>>
        /\ SB_MAP = last.pre.SB_MAP
        /\ admin = last.pre.admin
        /\ revoked_permits = last.pre.revoked_permits

\* migrate has cleared a map of as many keys as there are secrets, with a
\* subscriber registered
C12_Witness ==
    /\ Migrated("migrate")
    /\ last.res.ok
    /\ Len(last.pre.API_KEY_MAP) = NumSecrets
    /\ API_KEY_MAP = <<>>
    /\ DOMAIN SB_MAP # {}

----------------------------------------------------------------------------
(* C13: migrate with MigrateMsg::StdError fails in every state, with       *)
(* "this is an std error", and leaves the API-key map, the subscriber map, *)
(* the admin and the revocation ledger as they were.                       *)
C13_MigrateStdErrorFails ==
    Migrated("std_error") =>
        /\ ~last.res.ok
        /\ last.res.err = "this is an std error"
        /\ RegistryUntouched
        /\ Storage = last.pre

\* migrate has failed on a store that holds API keys and a subscriber
C13_Witness ==
    /\ Migrated("std_error")
    /\ ~last.res.ok
    /\ API_KEY_MAP # <<>>
    /\ API_KEY_MAP = last.pre.API_KEY_MAP
    /\ DOMAIN SB_MAP # {}

----------------------------------------------------------------------------
(* C14: ApiKeysWithPermit with an admin-signed permit named                *)
(* "api_keys_permit" succeeds and lists each stored digest once and        *)
(* nothing else, and the stored digests are those added and not since      *)
(* removed: none at instantiation; a successful AddApiKey{s} adds the      *)
(* digest of s to those stored before it, a successful RevokeApiKey{s}     *)
(* takes the digest of s from them, a successful migrate with              *)
(* MigrateMsg::Migrate leaves none, and every other call, and every call   *)
(* that fails, leaves them as they were.                                   *)
C14_FullListOfStoredDigests ==
    /\ (Queried("api_keys_with_permit")
            /\ AdminSignedPermit(last.msg.type, last.msg.permit)) =>
           /\ last.res.ok
           /\ ListedKeys = Range(last.pre.API_KEY_MAP)
           /\ Len(last.res.data.api_keys) = Cardinality(ListedKeys)
           /\ Len(last.res.data.api_keys) = Cardinality(Range(API_KEY_MAP))
    /\ Range(API_KEY_MAP) =
           IF last.entry = "instantiate" THEN {}
           ELSE IF Executed("add_api_key") /\ last.res.ok
           THEN Range(last.pre.API_KEY_MAP) \cup {key_hash_of(last.msg.api_key)}
           ELSE IF Executed("revoke_api_key") /\ last.res.ok
           THEN Range(last.pre.API_KEY_MAP) \ {key_hash_of(last.msg.api_key)}
           ELSE IF Migrated("migrate") /\ last.res.ok
           THEN {}
           ELSE Range(last.pre.API_KEY_MAP)

\* the admin's permit has listed the one digest stored, that of the last of
\* the secrets
C14_Witness ==
    /\ Queried("api_keys_with_permit")
    /\ AdminSignedPermit(last.msg.type, last.msg.permit)
    /\ last.res.ok
    /\ Cardinality(ListedKeys) = 1
    /\ ListedKeys = {key_hash_of(SecretNames[NumSecrets])}

----------------------------------------------------------------------------
(* C15: SetAdmin checks the sender before the new identity.  A sender that *)
(* is not the admin gets "Only the current admin can set a new admin",     *)
(* also when the proposed identity is malformed; the admin proposing a     *)
(* malformed identity gets "Invalid address" and the stored admin stays;   *)
(* only the admin proposing a well-formed identity succeeds, and then the  *)
(* new admin is stored and the response carries action = set_admin and     *)
(* new_admin = the proposed string.                                        *)
C15_SetAdminCheckOrder ==
    Executed("set_admin") =>
        LET n == last.msg.public_key IN
        IF last.sender # last.pre.admin
        THEN /\ ~last.res.ok
             /\ last.res.err = "Only the current admin can set a new admin"
             /\ Storage = last.pre
        ELSE IF ~addr_validate_ok(n)
        THEN /\ ~last.res.ok
             /\ last.res.err = "Invalid address"
             /\ admin = last.pre.admin
             /\ Storage = last.pre
        ELSE /\ last.res.ok
             /\ admin = n
             /\ last.res.attributes = << <<"action", "set_admin">>, <<"new_admin", n>> >>
             /\ SB_MAP = last.pre.SB_MAP
             /\ API_KEY_MAP = last.pre.API_KEY_MAP

\* a sender that is not the admin proposed a malformed identity and was told
\* it is not the admin
C15_Witness ==
    /\ Executed("set_admin")
    /\ last.sender # admin
    /\ last.msg.public_key = MalformedAddr
    /\ last.res.err = "Only the current admin can set a new admin"

----------------------------------------------------------------------------
(* C16: the admin is a singleton.  Instantiation stores the instantiating  *)
(* sender as the admin; the store holds an admin, a well-formed identity,  *)
(* in every state; and a call leaves an admin other than the one it found  *)
(* only when it is a successful SetAdmin sent by the admin it found, which *)
(* stores the identity it proposed: RegisterSubscriber, RemoveSubscriber,  *)
(* AddApiKey, RevokeApiKey, migrate and every query leave the admin as it  *)
(* was.                                                                    *)
C16_AdminSingleton ==
    /\ last.entry = "instantiate" => (admin = last.sender /\ last.res.ok)
    /\ admin \in Addrs
    /\ (last.entry # "instantiate" /\ admin # last.pre.admin) =>
           /\ Executed("set_admin")
           /\ last.res.ok
           /\ last.sender = last.pre.admin
           /\ admin = last.msg.public_key
    /\ (last.entry \in {"migrate", "query"}
            \/ (last.entry = "execute" /\ last.msg.type # "set_admin")) =>
           admin = last.pre.admin

\* a successful call other than SetAdmin has run under an admin that is not
\* the first of the identities, with a subscriber registered
C16_Witness ==
    /\ last.entry \in {"execute", "migrate"}
    /\ last.msg.type # "set_admin"
    /\ last.res.ok
    /\ admin = last.pre.admin
    /\ admin = AddrNames[NumAddrs]
    /\ DOMAIN SB_MAP # {}

----------------------------------------------------------------------------
\* what a GetAdmin query answers in the present state
GetAdminNow == query(Storage, ContractAddress, [type |-> "get_admin"])

(* C17: GetAdmin takes no permit and no signature and succeeds in every    *)
(* state of an instantiated contract with the admin stored at that time:   *)
(* right after instantiation it answers the instantiating sender, right    *)
(* after a successful SetAdmin{n} it answers n, and every GetAdmin that    *)
(* ran answered the admin of the store it ran on.                          *)
C17_GetAdminReturnsStoredAdmin ==
    /\ GetAdminNow.ok
    /\ GetAdminNow.data = admin
    /\ last.entry = "instantiate" => GetAdminNow.data = last.sender
    /\ (Executed("set_admin") /\ last.res.ok) => GetAdminNow.data = last.msg.public_key
    /\ Queried("get_admin") =>
           /\ DOMAIN last.msg = {"type"}
           /\ last.res.ok
           /\ last.res.data = last.pre.admin
           /\ last.res.data = admin

\* GetAdmin has answered an admin that is not the first of the identities
C17_Witness ==
    /\ Queried("get_admin")
    /\ last.res.ok
    /\ last.res.data = admin
    /\ last.res.data = AddrNames[NumAddrs]

----------------------------------------------------------------------------
\* the attributes the response of a successful execute message carries
Acknowledgement(msg) ==
    CASE msg.type = "register_subscriber" ->
             << <<"action", "register_subscriber">>, <<"subscriber", msg.public_key>> >>
      [] msg.type = "remove_subscriber" ->
             << <<"action", "remove_subscriber">>, <<"subscriber", msg.public_key>> >>
      [] msg.type = "set_admin" ->
             << <<"action", "set_admin">>, <<"new_admin", msg.public_key>> >>
      [] msg.type = "add_api_key" ->
             << <<"action", "add_api_key">>, <<"stored_hash", key_hash_of(msg.api_key)>> >>
      [] msg.type = "revoke_api_key" ->
             << <<"action", "revoke_api_key">>, <<"removed_hash", key_hash_of(msg.api_key)>> >>

(* C18: every successful execute message is answered with two attributes,  *)
(* an action tag that names the operation and the identifier it acted on:  *)
(* RegisterSubscriber{k} with action = register_subscriber, subscriber =   *)
(* k; RemoveSubscriber{k} with action = remove_subscriber, subscriber = k; *)
(* SetAdmin{n} with action = set_admin, new_admin = n; AddApiKey{s} with   *)
(* action = add_api_key, stored_hash = the digest of s; RevokeApiKey{s}    *)
(* with action = revoke_api_key, removed_hash = the digest of s.  The      *)
(* digest reported differs from s, and no attribute of an API-key          *)
(* response holds the s of the call.  A call that fails carries no         *)
(* attribute.                                                              *)
C18_Acknowledgements ==
    last.entry = "execute" =>
        /\ last.res.ok =>
               /\ last.res.attributes = Acknowledgement(last.msg)
               /\ Len(last.res.attributes) = 2
               /\ last.res.attributes[1] = <<"action", last.msg.type>>
        /\ (last.res.ok /\ last.msg.type \in {"add_api_key", "revoke_api_key"}) =>
               /\ IsSha256Hex(last.res.attributes[2][2])
               /\ \A i \in 1..Len(last.res.attributes) :
                      last.res.attributes[i][2] # last.msg.api_key
        /\ ~last.res.ok => last.res.attributes = <<>>

\* the revocation of the secret that is a 64-character hex string itself has
\* answered with the digest of that string
C18_Witness ==
    /\ Executed("revoke_api_key")
    /\ last.res.ok
    /\ IsSha256Hex(last.msg.api_key)
    /\ last.res.attributes[2] = <<"removed_hash", key_hash_of(last.msg.api_key)>>

----------------------------------------------------------------------------
\* what SubscriberStatusWithPermit answers for the key in the present state
SubscriberStatusNow(public_key, permit) ==
    query(Storage, ContractAddress,
          [type |-> "subscriber_status_with_permit", public_key |-> public_key,
           permit |-> permit])

(* C19: in every reachable state each entry of the subscriber map has      *)
(* status = true.  A successful RegisterSubscriber inserts the entry with  *)
(* status = true, no call alters an entry that stays in the map, an entry  *)
(* leaves the map only by a successful RemoveSubscriber of its key, and    *)
(* the status query answers active = true for every key in the map and     *)
(* active = false for every key that is not in it.                         *)
C19_StatusAlwaysTrue ==
    /\ \A k \in DOMAIN SB_MAP : SB_MAP[k].status = TRUE
    /\ (Executed("register_subscriber") /\ last.res.ok) =>
           /\ last.msg.public_key \in DOMAIN SB_MAP
           /\ SB_MAP[last.msg.public_key] = [status |-> TRUE]
    /\ \A k \in (DOMAIN SB_MAP) \cap (DOMAIN last.pre.SB_MAP) :
           SB_MAP[k] = last.pre.SB_MAP[k]
    /\ \A k \in (DOMAIN last.pre.SB_MAP) \ (DOMAIN SB_MAP) :
           /\ Executed("remove_subscriber")
           /\ last.res.ok
           /\ last.msg.public_key = k
    /\ \A k \in PublicKeys, permit \in Permits :
           AdminSignedPermit("subscriber_status_with_permit", permit) =>
               /\ SubscriberStatusNow(k, permit).ok
               /\ SubscriberStatusNow(k, permit).data.active = (k \in DOMAIN SB_MAP)

\* a second subscriber has been registered next to one that stayed as it was
C19_Witness ==
    /\ Executed("register_subscriber")
    /\ last.res.ok
    /\ DOMAIN last.pre.SB_MAP # {}
    /\ Cardinality(DOMAIN SB_MAP) = 2
    /\ \A k \in DOMAIN SB_MAP : SB_MAP[k].status

----------------------------------------------------------------------------
(* C20: in every reachable state each key of the API-key map is a string   *)
(* of 64 lowercase hexadecimal characters, the hex encoding of the 32-byte *)
(* SHA-256 digest of a secret; a key that a call adds to the map is the    *)
(* digest of the secret of that call, a successful AddApiKey, so that      *)
(* every key in the map is the digest of a secret passed to an earlier     *)
(* successful AddApiKey and no call inserts a key of another form.         *)
C20_KeysAreSha256Hex ==
    /\ \A k \in Range(API_KEY_MAP) :
           /\ Len(Chars(k)) = 64
           /\ \A i \in 1..64 : Chars(k)[i] \in Range(HexDigits)
           /\ \E s \in Secrets :
                  /\ Len(Sha256(Chars(s))) = 32
                  /\ Chars(k) = hex_encode(Sha256(Chars(s)))
    /\ last.entry = "instantiate" => Range(API_KEY_MAP) = {}
    /\ \A k \in Range(API_KEY_MAP) \ Range(last.pre.API_KEY_MAP) :
           /\ Executed("add_api_key")
           /\ last.res.ok
           /\ Chars(k) = hex_encode(Sha256(Chars(last.msg.api_key)))

\* the map holds the digest of a one-character secret and the digest of a
\* secret that is a 64-character hex string itself
C20_Witness ==
    /\ Len(API_KEY_MAP) = 2
    /\ \E s \in Secrets : Len(Chars(s)) = 1 /\ key_hash_of(s) \in Range(API_KEY_MAP)
    /\ \E s \in Secrets : Len(Chars(s)) = 64 /\ key_hash_of(s) \in Range(API_KEY_MAP)

----------------------------------------------------------------------------
(* C22: a registry operation touches the one map it addresses, and in it   *)
(* the entry of the key it was given.  RegisterSubscriber{k} and           *)
(* RemoveSubscriber{k} leave the API-key map and the admin as they were,   *)
(* and every subscriber entry other than that of k present or absent as    *)
(* before with the value it had; AddApiKey{s} and RevokeApiKey{s} leave    *)
(* the subscriber map and the admin as they were, and every digest other   *)
(* than that of s stored or not stored as before, once.                    *)
C22_SingleMapSingleEntry ==
    /\ (Executed("register_subscriber") \/ Executed("remove_subscriber")) =>
           LET k == last.msg.public_key IN
           /\ API_KEY_MAP = last.pre.API_KEY_MAP
           /\ admin = last.pre.admin
           /\ (DOMAIN SB_MAP) \ {k} = (DOMAIN last.pre.SB_MAP) \ {k}
           /\ \A j \in (DOMAIN SB_MAP) \ {k} : SB_MAP[j] = last.pre.SB_MAP[j]
    /\ (Executed("add_api_key") \/ Executed("revoke_api_key")) =>
           LET d == key_hash_of(last.msg.api_key) IN
           /\ SB_MAP = last.pre.SB_MAP
           /\ admin = last.pre.admin
           /\ Range(API_KEY_MAP) \ {d} = Range(last.pre.API_KEY_MAP) \ {d}
           /\ Len(API_KEY_MAP) = Cardinality(Range(API_KEY_MAP))

\* a subscriber was removed while another stayed and API keys were stored
C22_Witness ==
    /\ Executed("remove_subscriber")
    /\ last.res.ok
    /\ \E j \in DOMAIN SB_MAP : j # last.msg.public_key
    /\ SB_MAP # last.pre.SB_MAP
    /\ API_KEY_MAP # <<>>
    /\ API_KEY_MAP = last.pre.API_KEY_MAP

----------------------------------------------------------------------------
\* the permit queries a permit can be presented to, on the given storage
PermitQueryOn(st, type, permit) ==
    IF type = "subscriber_status_with_permit"
    THEN {query(st, ContractAddress,
                [type |-> type, public_key |-> k, permit |-> permit]) : k \in PublicKeys}
    ELSE {query(st, ContractAddress, [type |-> type, permit |-> permit])}

(* C25: the permit queries compare the signer with the admin in the        *)
(* storage at the time of the query.  Right after a successful SetAdmin    *)
(* from old to a different identity new, a rightly named, valid permit     *)
(* signed by old is turned away by SubscriberStatusWithPermit and by       *)
(* ApiKeysWithPermit with "Unauthorized: not the admin", although the same *)
(* query on the storage before the rotation accepted it, and a rightly     *)
(* named, valid permit signed by new is accepted, although the same query  *)
(* before the rotation turned it away.                                     *)
C25_AdminReadAtQueryTime ==
    (Executed("set_admin") /\ last.res.ok /\ last.msg.public_key # last.sender) =>
        \A type \in {"subscriber_status_with_permit", "api_keys_with_permit"} :
            \A permit \in Permits :
                (permit.permit_name = ExpectedPermitName(type)
                     /\ PermitValidates(type, permit)) =>
                    /\ permit.signer = last.sender =>
                           /\ \A res \in PermitQueryOn(Storage, type, permit) :
                                  ~res.ok /\ res.err = "Unauthorized: not the admin"
                           /\ \A res \in PermitQueryOn(last.pre, type, permit) : res.ok
                    /\ permit.signer = last.msg.public_key =>
                           /\ \A res \in PermitQueryOn(Storage, type, permit) : res.ok
                           /\ \A res \in PermitQueryOn(last.pre, type, permit) :
                                  ~res.ok /\ res.err = "Unauthorized: not the admin"

\* the admin has handed over a store that holds a subscriber and an API key
C25_Witness ==
    /\ Executed("set_admin")
    /\ last.res.ok
    /\ last.msg.public_key # last.sender
    /\ admin # last.pre.admin
    /\ DOMAIN SB_MAP # {}
    /\ API_KEY_MAP # <<>>

----------------------------------------------------------------------------
\* the execute messages a sender can send
ExecuteMsgs ==
    [type : {"register_subscriber", "remove_subscriber"}, public_key : PublicKeys]
        \cup [type : {"set_admin"}, public_key : Addrs \cup {MalformedAddr}]
        \cup [type : {"add_api_key", "revoke_api_key"}, api_key : Secrets]

\* the permit queries that present the given permit
PermitQueryMsgs(permit) ==
    [type : {"subscriber_status_with_permit"}, public_key : PublicKeys, permit : {permit}]
        \cup [type : {"api_keys_with_permit"}, permit : {permit}]

\* the present storage with both maps emptied: the storage of a contract of
\* the same admin in which nothing is registered
EmptiedRegistry == [Storage EXCEPT !.SB_MAP = <<>>, !.API_KEY_MAP = <<>>]

(* C26: what a principal that is not the admin is answered does not depend *)
(* on the contents of the maps.  In every reachable state, an execute      *)
(* message from a sender that is not the admin, and a permit query whose   *)
(* permit is not signed by the admin, get the result they get on the       *)
(* storage of the same admin whose maps are empty; so any two states of    *)
(* the same admin, whatever their maps hold, answer them alike.  The       *)
(* result is never one of the existence errors, never a status and never   *)
(* a list of keys.                                                         *)
C26_NonAdminLearnsNothing ==
    /\ \A sender \in Addrs \ {admin} : \A msg \in ExecuteMsgs :
           /\ execute(Storage, sender, msg).res = execute(EmptiedRegistry, sender, msg).res
           /\ execute(Storage, sender, msg).res = ErrResult(AdminGateError(msg.type))
    /\ \A permit \in Permits : permit.signer # admin =>
           \A msg \in PermitQueryMsgs(permit) :
               /\ query(Storage, ContractAddress, msg) =
                      query(EmptiedRegistry, ContractAddress, msg)
               /\ ~query(Storage, ContractAddress, msg).ok
               /\ query(Storage, ContractAddress, msg).data = NoData

\* a sender that is not the admin registered a key that is registered and was
\* told it is not the admin, in a state whose maps are not empty
C26_Witness ==
    /\ Executed("register_subscriber")
    /\ last.sender # admin
    /\ last.msg.public_key \in DOMAIN SB_MAP
    /\ last.res.err = "Only admin can register subscribers"
    /\ API_KEY_MAP # <<>>
    /\ Storage # EmptiedRegistry

----------------------------------------------------------------------------
(* C27: insert and remove undo each other and a key can be used again.     *)
(* RegisterSubscriber{k} by the admin succeeds when k is absent; when      *)
(* RemoveSubscriber{k} by the admin follows it, that succeeds too and the  *)
(* storage is again what it was before the registration; and when          *)
(* RegisterSubscriber{k} by the admin follows a successful removal of k,   *)
(* it succeeds.  Likewise AddApiKey{s} by the admin succeeds when the      *)
(* digest of s is absent, RevokeApiKey{s} right after it succeeds and      *)
(* restores the storage, the keys in their order of iteration included,    *)
(* and AddApiKey{s} by the admin succeeds right after a successful         *)
(* RevokeApiKey{s} and right after a successful migrate with               *)
(* MigrateMsg::Migrate.                                                    *)
C27_InsertRemoveInverse ==
    [][ /\ (last'.entry = "execute" /\ last'.sender = admin) =>
               /\ (last'.msg.type = "register_subscriber"
                       /\ last'.msg.public_key \notin DOMAIN SB_MAP) =>
                      (last'.res.ok /\ last'.msg.public_key \in DOMAIN SB_MAP')
               /\ (last'.msg.type = "add_api_key"
                       /\ key_hash_of(last'.msg.api_key) \notin Range(API_KEY_MAP)) =>
                      (last'.res.ok /\ key_hash_of(last'.msg.api_key) \in Range(API_KEY_MAP'))
               /\ (last'.msg.type = "remove_subscriber"
                       /\ Executed("register_subscriber") /\ last.res.ok
                       /\ last'.msg.public_key = last.msg.public_key) =>
                      (last'.res.ok /\ Storage' = last.pre)
               /\ (last'.msg.type = "register_subscriber"
                       /\ Executed("remove_subscriber") /\ last.res.ok
                       /\ last'.msg.public_key = last.msg.public_key) =>
                      (last'.res.ok /\ Storage' = last.pre)
               /\ (last'.msg.type = "revoke_api_key"
                       /\ Executed("add_api_key") /\ last.res.ok
                       /\ last'.msg.api_key = last.msg.api_key) =>
                      (last'.res.ok /\ Storage' = last.pre)
               /\ (last'.msg.type = "add_api_key"
                       /\ Executed("revoke_api_key") /\ last.res.ok
                       /\ last'.msg.api_key = last.msg.api_key) =>
                      last'.res.ok
               /\ (last'.msg.type = "add_api_key"
                       /\ Migrated("migrate") /\ last.res.ok) =>
                      (last'.res.ok
                           /\ API_KEY_MAP' = <<key_hash_of(last'.msg.api_key)>>) ]_vars

\* the key added last has been revoked and the keys left are those stored
\* before it was added, in their order
C27_Witness ==
    /\ Executed("revoke_api_key")
    /\ last.res.ok
    /\ API_KEY_MAP # <<>>
    /\ last.pre.API_KEY_MAP = Append(API_KEY_MAP, key_hash_of(last.msg.api_key))
    /\ DOMAIN SB_MAP # {}

----------------------------------------------------------------------------
(* migrate, statement by statement: the call is followed from its entry    *)
(* to its return, on every storage the contract can have.  During the      *)
(* call, last holds the position in the code (pc), the vector              *)
(* keys_to_remove and the counts of the enumerations and removals done.    *)

\* the key hashes the model can store
KeyHashes == {key_hash_of(s) : s \in Secrets}

\* the storages the contract can have: any admin, any set of subscribers, any
\* keys of the API-key map in any order of insertion, no revocation
Storages ==
    [admin : Addrs,
     SB_MAP : {[k \in S |-> [status |-> TRUE]] : S \in SUBSET PublicKeys},
     API_KEY_MAP : {q \in UNION {[1..n -> KeyHashes] : n \in 0..Cardinality(KeyHashes)} :
                       \A i, j \in 1..Len(q) : q[i] = q[j] => i = j},
     revoked_permits : {{}}]

\* the result of a call that has not returned
NotReturned == [returned |-> FALSE]

MigrateInit ==
    \E st \in Storages, type \in {"migrate", "std_error"} :
        /\ admin = st.admin
        /\ SB_MAP = st.SB_MAP
        /\ API_KEY_MAP = st.API_KEY_MAP
        /\ revoked_permits = st.revoked_permits
        /\ last = [entry |-> "migrate", sender |-> NoAddr, msg |-> [type |-> type],
                   pre |-> st, res |-> NotReturned, pc |-> "match",
                   keys_to_remove |-> <<>>, enumerations |-> 0, removals |-> 0]

\* let keys_to_remove = API_KEY_MAP.iter_keys(deps.storage)?...collect()
MigrateCollect ==
    /\ last.pc = "match"
    /\ last.msg.type = "migrate"
    /\ last' = [last EXCEPT !.pc = "for",
                             !.keys_to_remove = api_iter_keys(API_KEY_MAP),
                             !.enumerations = @ + 1]
    /\ UNCHANGED <<admin, SB_MAP, API_KEY_MAP, revoked_permits>>

\* one turn of the loop, enumerating the map again after the removal
MigrateRemove_reenumerate ==
    /\ last.pc = "for"
    /\ last.keys_to_remove # <<>>
    /\ API_KEY_MAP' = api_remove(API_KEY_MAP, Head(last.keys_to_remove))
    /\ last' = [last EXCEPT !.keys_to_remove = api_iter_keys(API_KEY_MAP'),
                             !.enumerations = @ + 1,
                             !.removals = @ + 1]
    /\ UNCHANGED <<admin, SB_MAP, revoked_permits>>

\* one turn of for key in keys_to_remove { API_KEY_MAP.remove(deps.storage, &key)?; }
MigrateRemove ==
    /\ last.pc = "for"
    /\ last.keys_to_remove # <<>>
    /\ API_KEY_MAP' = api_remove(API_KEY_MAP, Head(last.keys_to_remove))
    /\ last' = [last EXCEPT !.keys_to_remove = Tail(@), !.removals = @ + 1]
    /\ UNCHANGED <<admin, SB_MAP, revoked_permits>>

\* the loop is over: Ok(Response::new().add_attribute(..).add_attribute(..))
MigrateReturn ==
    /\ last.pc = "for"
    /\ last.keys_to_remove = <<>>
    /\ last' = [last EXCEPT !.pc = "done",
                             !.res = OkResponse(<< <<"action", "migrate">>,
                                                   <<"status", "api_key_map_cleared">> >>)]
    /\ UNCHANGED <<admin, SB_MAP, API_KEY_MAP, revoked_permits>>

\* MigrateMsg::StdError {} => Err(StdError::generic_err("this is an std error"))
MigrateStdError ==
    /\ last.pc = "match"
    /\ last.msg.type = "std_error"
    /\ last' = [last EXCEPT !.pc = "done", !.res = ErrResult("this is an std error")]
    /\ UNCHANGED <<admin, SB_MAP, API_KEY_MAP, revoked_permits>>

MigrateNext ==
    \/ MigrateCollect
    \/ MigrateRemove
    \/ MigrateReturn
    \/ MigrateStdError

\* a call that has started runs on: the host executes it to its return
MigrateSpec == MigrateInit /\ [][MigrateNext]_vars /\ WF_vars(MigrateNext)

(* C23: migrate with MigrateMsg::Migrate always returns, with success, and *)
(* its work is bounded by the number n of API-key entries stored when it   *)
(* is called: it enumerates the keys once, the keys present at the call,   *)
(* and removes exactly n times, each removal taking one entry from the     *)
(* map, which is empty at the return; what it returns and leaves is what   *)
(* migrate, taken as one step, returns and leaves.                         *)
C23_MigrateBounded ==
    /\ <>(last.pc = "done")
    /\ [](last.msg.type = "migrate" =>
             LET n == Len(last.pre.API_KEY_MAP) IN
             /\ last.enumerations <= 1
             /\ last.removals <= n
             /\ Len(API_KEY_MAP) = n - last.removals
             /\ last.pc = "for" =>
                    /\ last.enumerations = 1
                    /\ Len(last.keys_to_remove) = n - last.removals
                    /\ Range(last.keys_to_remove) \subseteq Range(last.pre.API_KEY_MAP)
             /\ last.pc = "done" =>
                    /\ last.res.ok
                    /\ last.enumerations = 1
                    /\ last.removals = n
                    /\ API_KEY_MAP = <<>>
                    /\ Out(last.res, Storage) = migrate(last.pre, last.msg))

\* migrate has returned after removing as many keys as there are secrets
C23_Witness ==
    /\ last.entry = "migrate"
    /\ last.msg.type = "migrate"
    /\ last.pre.API_KEY_MAP # <<>>
    /\ last.res # NotReturned
    /\ last.res.ok
    /\ last.removals = NumSecrets
    /\ API_KEY_MAP = <<>>

----------------------------------------------------------------------------
(* The signature-checked status query.  The query dispatch of this         *)
(* contract (pub fn query) has no such variant; the worker manager         *)
(* declares the messages of it (GetWorkers { signature,                    *)
(* subscriber_public_key }, SubscriberStatusQuery), and its handler is     *)
(* taken from the specification, sections 4.3 and 4.6.                     *)

\* hex strings that decode to a secp256k1 public key, and one that does not
VerifyingKeys == {"02aa", "03bb"}
MalformedKey == "zz"

\* the message the signature of a status query covers: address || "_payload_message"
payload_message(address) == address \o "_payload_message"

\* a signature as the query receives it: whether signature_hex decodes as a DER
\* signature, and, when it does, the key that made it and the message it covers
Signatures ==
    [der : BOOLEAN,
     by : VerifyingKeys,
     over : {payload_message(k) : k \in PublicKeys} \cup PublicKeys]

\* verify(public_key_hex, signature_hex, message): true when the signature is
\* that of the key over the message, an error in every other case.  Two
\* messages with the same SHA-256 digest are taken to be the same message.
verify(public_key_hex, signature, message) ==
    IF public_key_hex \notin VerifyingKeys THEN [ok |-> FALSE, err |-> "DecodeError"]
    ELSE IF ~signature.der THEN [ok |-> FALSE, err |-> "DecodeError"]
    ELSE IF signature.by # public_key_hex \/ signature.over # message
    THEN [ok |-> FALSE, err |-> "VerifyError"]
    ELSE [ok |-> TRUE, err |-> ""]

\* the status query answering active = false when the signature does not verify
query_subscriber_status_coerce(st, address, signature, public_key) ==
    LET v == verify(public_key, signature, payload_message(address)) IN
    IF ~v.ok THEN OkBinary([active |-> FALSE])
    ELSE OkBinary([active |-> sb_get_is_some(st.SB_MAP, address)])

\* SubscriberStatus(address, signature, public_key)
query_subscriber_status(st, address, signature, public_key) ==
    LET v == verify(public_key, signature, payload_message(address)) IN
    IF ~v.ok THEN ErrResult("invalid signature")
    ELSE OkBinary([active |-> sb_get_is_some(st.SB_MAP, address)])

SubscriberStatus ==
    \E address \in PublicKeys, signature \in Signatures,
       public_key \in VerifyingKeys \cup {MalformedKey} :
        LET msg == [type |-> "subscriber_status", address |-> address,
                    signature |-> signature, public_key |-> public_key] IN
        /\ last' = [entry |-> "query", sender |-> NoAddr, msg |-> msg,
                    pre |-> Storage,
                    res |-> query_subscriber_status(Storage, address, signature,
                                                    public_key)]
        /\ UNCHANGED <<admin, SB_MAP, API_KEY_MAP, revoked_permits>>

\* the registry of subscribers with the signature-checked query
StatusNext ==
    \/ RegisterSubscriber
    \/ RemoveSubscriber
    \/ SubscriberStatus

StatusSpec == Init /\ [][StatusNext]_vars

\* the signature of the query decodes, was made by the key presented and covers
\* address || "_payload_message"
SignatureVerifies(msg) ==
    /\ msg.public_key \in VerifyingKeys
    /\ msg.signature.der
    /\ msg.signature.by = msg.public_key
    /\ msg.signature.over = msg.address \o "_payload_message"

(* C24: the SubscriberStatus query (address, signature, public key)        *)
(* answers {active: presence of address in the subscriber map} exactly     *)
(* when the signature verifies, under the public key, over the payload     *)
(* address || "_payload_message"; when the key or the signature is         *)
(* malformed, the signature is another key's, or it covers another         *)
(* message (the address without the suffix, another address's payload),    *)
(* the query fails and carries no active field.  It changes nothing.       *)
C24_SignatureGatesStatus ==
    Queried("subscriber_status") =>
        /\ SignatureVerifies(last.msg) =>
               /\ last.res.ok
               /\ last.res.data = [active |-> last.msg.address \in DOMAIN SB_MAP]
        /\ ~SignatureVerifies(last.msg) =>
               /\ ~last.res.ok
               /\ last.res.data = NoData
        /\ Storage = last.pre

\* the query of a registered key failed on a well-formed signature of the key
\* presented that covers the address without the suffix
C24_Witness ==
    /\ Queried("subscriber_status")
    /\ last.msg.address \in DOMAIN SB_MAP
    /\ last.msg.signature.der
    /\ last.msg.signature.by = last.msg.public_key
    /\ last.msg.signature.over = last.msg.address
    /\ ~last.res.ok

====
